---- MODULE Spec2Model ----
(***************************************************************************)
(* Row-level-security model of the InsightsLM database schema              *)
(* (supabase/migrations/consolidated_migration.sql) and of the client code *)
(* that talks to it (AuthContext.tsx, useUserProfiles, useNotes).          *)
(*                                                                         *)
(* Every table is a set of rows.  Every request is one SQL statement       *)
(* issued by a principal (anon, authenticated(u), service_role); the       *)
(* statement touches exactly the rows the permissive policies of the       *)
(* table let it touch (policies of one command are OR-ed, a table with     *)
(* row level security enabled and no matching policy yields no row).       *)
(***************************************************************************)
EXTENDS Integers, FiniteSets, Sequences, TLC

\* ------------------------------------------------------------------ bounds
MaxUsers == 2
MaxNotebooks == 1
MaxNotes == 1
MaxSources == 1
MaxChats == 1
MaxDocuments == 1
MaxAttempts == 5
MaxTime == 1
MaxLogged == 1

\* the SQL NULL: auth.uid() of a request without a user, a missing column value
NULL == 0

Users == 1..MaxUsers
NotebookIds == 1..MaxNotebooks
NoteIds == 1..MaxNotes
SourceIds == 1..MaxSources
ChatIds == 1..MaxChats
DocumentIds == 1..MaxDocuments
AttemptIds == 1..MaxAttempts
Roles == {"user", "admin"}
\* security answers as typed
Answers == {"Rex", "rex ", "tom"}

VARIABLES
    auth_users,                  \* ids of auth.users
    profiles,                    \* public.profiles
    notebooks,                   \* public.notebooks
    sources,                     \* public.sources
    notes,                       \* public.notes
    n8n_chat_histories,          \* public.n8n_chat_histories
    documents,                   \* public.documents
    security_question_attempts,  \* public.security_question_attempts
    now,                         \* the database clock, now()
    last,                        \* the statement just executed and its outcome
    session,                     \* the principal of the browser's supabase client
    form,                        \* state of the mounted ForgotPassword component
    call,                        \* the checkSecurityAnswer call in flight
    wrong,                       \* ids of the attempt rows of calls that returned false
    pg_policies,                 \* the policies in the catalog
    rewriter,                    \* the statement being rewritten with its policies
    provider,                    \* the React state of AuthProvider
    tasks,                       \* promises of AuthProvider not yet settled, event handled last
    toast,                       \* the toast shown last
    currentSession               \* the session held by the supabase auth client

vars == <<auth_users, profiles, notebooks, sources, notes, n8n_chat_histories,
          documents, security_question_attempts, now, last, session, form, call, wrong,
          pg_policies, rewriter, provider, tasks, toast, currentSession>>

\* the catalog of policies and the query rewriter
planner == <<pg_policies, rewriter>>

\* the browser side
client == <<session, form, call, wrong>>

\* AuthProvider and the toaster
react == <<provider, tasks, toast, currentSession>>

\* --------------------------------------------------------------- principals
Principal(k, u) == [kind |-> k, uid |-> u]
anon == Principal("anon", NULL)
service_role == Principal("service_role", NULL)
authenticated(u) == Principal("authenticated", u)
Principals == {anon, service_role} \cup {authenticated(u) : u \in auth_users}

\* auth.uid(): the user id of the request's token, NULL without one
auth_uid(p) == p.uid

\* SQL comparison: a comparison with NULL is not true
SqlEq(a, b) == a # NULL /\ b # NULL /\ a = b
SqlNe(a, b) == a # NULL /\ b # NULL /\ a # b

\* WHERE id = w; w = NULL stands for a statement without a WHERE clause
Where(w, id) == w = NULL \/ w = id

\* a statement with a WHERE clause reads the table, so the SELECT policies
\* apply to it in addition to the policies of its own command
Reads(w) == w # NULL

IdsOf(rows) == {r.id : r \in rows}

\* ------------------------------------------------------- policies: profiles
UsersCanViewTheirOwnProfile(p, row) == SqlEq(auth_uid(p), row.id)

ServiceRoleCanManageAllProfiles(p, row) == p.kind = "service_role"

profiles_select(p, row) ==
    UsersCanViewTheirOwnProfile(p, row) \/ ServiceRoleCanManageAllProfiles(p, row)

\* EXISTS (SELECT 1 FROM public.profiles WHERE id = auth.uid() AND role = 'admin'),
\* a sub-select of the requesting principal, so under the SELECT policies
IsAdmin(p) ==
    \E r \in profiles :
        /\ SqlEq(r.id, auth_uid(p))
        /\ r.role = "admin"
        /\ profiles_select(p, r)

UsersCanUpdateTheirOwnProfile(p, row) == SqlEq(auth_uid(p), row.id)

UsersCanInsertTheirOwnProfile(p, row) == SqlEq(auth_uid(p), row.id)

AdminCanUpdateAnyProfile(p, row) == IsAdmin(p)

AdminCanDeleteAnyProfile_NoSelfGuard(p, row) == IsAdmin(p)

AdminCanDeleteAnyProfile(p, row) == IsAdmin(p) /\ SqlNe(auth_uid(p), row.id)

profiles_insert_check(p, row) ==
    UsersCanInsertTheirOwnProfile(p, row) \/ ServiceRoleCanManageAllProfiles(p, row)

profiles_update_using(p, row) ==
    \/ UsersCanUpdateTheirOwnProfile(p, row)
    \/ AdminCanUpdateAnyProfile(p, row)
    \/ ServiceRoleCanManageAllProfiles(p, row)

\* the UPDATE policies give no WITH CHECK, so USING checks the new row too
profiles_update_check(p, row) == profiles_update_using(p, row)

profiles_delete_using(p, row) ==
    AdminCanDeleteAnyProfile(p, row) \/ ServiceRoleCanManageAllProfiles(p, row)

\* ------------------------------------------------------ policies: notebooks
\* the policy this one replaced: "Users can view notebooks based on role"
UsersCanViewNotebooksBasedOnRole(p, row) ==
    SqlEq(auth_uid(p), row.user_id) \/ IsAdmin(p)

AllUsersCanViewAllNotebooks(p, row) == TRUE

OnlyAdminCanCreateNotebooks(p, row) == IsAdmin(p)

\* the policy this one replaced: "Users can update notebooks based on role"
UsersCanUpdateNotebooksBasedOnRole(p, row) ==
    SqlEq(auth_uid(p), row.user_id) \/ IsAdmin(p)

OnlyAdminCanUpdateNotebooks(p, row) == IsAdmin(p)

OnlyAdminCanDeleteNotebooks(p, row) == IsAdmin(p)

notebooks_select(p, row) == AllUsersCanViewAllNotebooks(p, row)

notebooks_insert_check(p, row) == OnlyAdminCanCreateNotebooks(p, row)

notebooks_update_using(p, row) == OnlyAdminCanUpdateNotebooks(p, row)

notebooks_update_check(p, row) == notebooks_update_using(p, row)

notebooks_delete_using(p, row) == OnlyAdminCanDeleteNotebooks(p, row)

\* the sub-select FROM public.notebooks WHERE id = nb of another table's policy
NotebookVisible(p, nb) ==
    \E n \in notebooks : SqlEq(n.id, nb) /\ notebooks_select(p, n)

\* -------------------------------------------------------- policies: sources
UsersCanViewSourcesFromAllNotebooks(p, row) == TRUE

OnlyAdminCanCreateSources(p, row) == IsAdmin(p)

OnlyAdminCanUpdateSources(p, row) == IsAdmin(p)

OnlyAdminCanDeleteSources(p, row) == IsAdmin(p)

sources_select(p, row) == UsersCanViewSourcesFromAllNotebooks(p, row)

sources_insert_check(p, row) == OnlyAdminCanCreateSources(p, row)

sources_update_using(p, row) == OnlyAdminCanUpdateSources(p, row)

sources_update_check(p, row) == sources_update_using(p, row)

sources_delete_using(p, row) == OnlyAdminCanDeleteSources(p, row)

\* ---------------------------------------------------------- policies: notes
UsersCanViewTheirOwnNotesOnly(p, row) ==
    SqlEq(row.user_id, auth_uid(p)) \/ IsAdmin(p)

\* the policy this one replaced: "Users can create notes based on role"
UsersCanCreateNotesBasedOnRole(p, row) ==
    \/ \E n \in notebooks : SqlEq(n.id, row.notebook_id) /\ SqlEq(n.user_id, auth_uid(p))
    \/ IsAdmin(p)

UsersCanCreateTheirOwnNotesOnly(p, row) ==
    SqlEq(row.user_id, auth_uid(p)) \/ IsAdmin(p)

UsersCanUpdateTheirOwnNotesOnly(p, row) ==
    SqlEq(row.user_id, auth_uid(p)) \/ IsAdmin(p)

UsersCanDeleteTheirOwnNotesOnly(p, row) ==
    SqlEq(row.user_id, auth_uid(p)) \/ IsAdmin(p)

notes_select(p, row) == UsersCanViewTheirOwnNotesOnly(p, row)

notes_insert_check(p, row) == UsersCanCreateTheirOwnNotesOnly(p, row)

notes_update_using(p, row) == UsersCanUpdateTheirOwnNotesOnly(p, row)

notes_update_check(p, row) == notes_update_using(p, row)

notes_delete_using(p, row) == UsersCanDeleteTheirOwnNotesOnly(p, row)

\* ------------------------------------------------ policies: chat histories
UsersCanViewTheirOwnChatHistoriesOnly(p, row) == NotebookVisible(p, row.session_id)

\* a policy without the look-up of the parent notebook
UsersCanInsertChatHistories_NoParent(p, row) == p.kind = "authenticated"

UsersCanInsertChatHistories(p, row) == NotebookVisible(p, row.session_id)

ServiceRoleCanManageChatHistories(p, row) == p.kind = "service_role"

chat_select(p, row) ==
    UsersCanViewTheirOwnChatHistoriesOnly(p, row) \/ ServiceRoleCanManageChatHistories(p, row)

chat_insert_check(p, row) ==
    UsersCanInsertChatHistories(p, row) \/ ServiceRoleCanManageChatHistories(p, row)

chat_update_using(p, row) == ServiceRoleCanManageChatHistories(p, row)

\* an earlier policy: "Users can delete chat histories from accessible notebooks"
UsersCanDeleteChatHistoriesFromAccessibleNotebooks(p, row) ==
    \E n \in notebooks :
        /\ SqlEq(n.id, row.session_id)
        /\ SqlEq(n.user_id, auth_uid(p)) \/ IsAdmin(p)

chat_delete_using(p, row) == ServiceRoleCanManageChatHistories(p, row)

\* ------------------------------------------------------ policies: documents
\* a table without ENABLE ROW LEVEL SECURITY: every row passes
RowSecurityDisabled(p, row) == TRUE

UsersCanViewDocumentsFromAllNotebooks(p, row) == TRUE

OnlyAdminCanInsertDocuments(p, row) == IsAdmin(p)

ServiceRoleCanManageAllDocuments(p, row) == p.kind = "service_role"

documents_select(p, row) ==
    UsersCanViewDocumentsFromAllNotebooks(p, row) \/ ServiceRoleCanManageAllDocuments(p, row)

documents_insert_check(p, row) ==
    OnlyAdminCanInsertDocuments(p, row) \/ ServiceRoleCanManageAllDocuments(p, row)

documents_update_using(p, row) == ServiceRoleCanManageAllDocuments(p, row)

documents_delete_using(p, row) == ServiceRoleCanManageAllDocuments(p, row)

\* ----------------------------------- policies: security_question_attempts
UsersCanViewTheirOwnSecurityAttempts(p, row) == SqlEq(auth_uid(p), row.user_id)

UsersCanInsertTheirOwnSecurityAttempts(p, row) == SqlEq(auth_uid(p), row.user_id)

ServiceRoleCanManageSecurityAttempts(p, row) == p.kind = "service_role"

attempts_select(p, row) ==
    UsersCanViewTheirOwnSecurityAttempts(p, row) \/ ServiceRoleCanManageSecurityAttempts(p, row)

attempts_insert_check(p, row) ==
    UsersCanInsertTheirOwnSecurityAttempts(p, row) \/ ServiceRoleCanManageSecurityAttempts(p, row)

attempts_update_using(p, row) == ServiceRoleCanManageSecurityAttempts(p, row)

attempts_delete_using(p, row) == ServiceRoleCanManageSecurityAttempts(p, row)

\* ------------------------------------------------------------------ cascade
\* ON DELETE CASCADE of the foreign keys, after the profiles in gone went
CascadeNotebooks(gone) == {n \in notebooks : n.user_id \notin gone}

CascadeSources(goneNb) == {s \in sources : s.notebook_id \notin goneNb}

\* notes.notebook_id without ON DELETE CASCADE
CascadeNotesOfOwnerOnly(gone, goneNb) == {n \in notes : n.user_id \notin gone}

CascadeNotes(gone, goneNb) ==
    {n \in notes : n.user_id \notin gone /\ n.notebook_id \notin goneNb}

CascadeAttempts(gone) ==
    {a \in security_question_attempts : a.user_id \notin gone}

\* the record kept of a statement: who issued it, its WHERE target, the ids of
\* the rows it touched (returned, stored, changed or removed) and its error:
\* "" for none, "policy" for a row refused by WITH CHECK, "constraint" for a
\* primary key, foreign key or NOT NULL violation
Statement(cmd, tbl, p, w, ids, err) ==
    [cmd |-> cmd, tbl |-> tbl, by |-> p, where |-> w, ids |-> ids, error |-> err]

\* ----------------------------------------------------------------- catalog
Tables == {"profiles", "notebooks", "sources", "notes", "n8n_chat_histories",
           "documents", "security_question_attempts"}

\* CREATE POLICY name ON tbl FOR cmd [TO role] USING/WITH CHECK (...); sub is
\* the set of tables the expressions read in a sub-select
Policy(name, tbl, cmd, to, sub) ==
    [name |-> name, tbl |-> tbl, cmd |-> cmd, to |-> to, sub |-> sub]

\* the policies consolidated_migration.sql creates
ConsolidatedPolicies ==
    { Policy("Users can view their own profile", "profiles", "SELECT", "public", {}),
      Policy("Users can update their own profile", "profiles", "UPDATE", "public", {}),
      Policy("Users can insert their own profile", "profiles", "INSERT", "public", {}),
      Policy("Admin can update any profile", "profiles", "UPDATE", "public", {"profiles"}),
      Policy("Admin can delete any profile", "profiles", "DELETE", "public", {"profiles"}),
      Policy("Service role can manage all profiles", "profiles", "ALL", "service_role", {}),
      Policy("All users can view all notebooks", "notebooks", "SELECT", "public", {}),
      Policy("Only admin can create notebooks", "notebooks", "INSERT", "public", {"profiles"}),
      Policy("Only admin can update notebooks", "notebooks", "UPDATE", "public", {"profiles"}),
      Policy("Only admin can delete notebooks", "notebooks", "DELETE", "public", {"profiles"}),
      Policy("Users can view sources from all notebooks", "sources", "SELECT", "public", {}),
      Policy("Only admin can create sources", "sources", "INSERT", "public", {"profiles"}),
      Policy("Only admin can update sources", "sources", "UPDATE", "public", {"profiles"}),
      Policy("Only admin can delete sources", "sources", "DELETE", "public", {"profiles"}),
      Policy("Users can view their own notes only", "notes", "SELECT", "public", {"profiles"}),
      Policy("Users can create their own notes only", "notes", "INSERT", "public", {"profiles"}),
      Policy("Users can update their own notes only", "notes", "UPDATE", "public", {"profiles"}),
      Policy("Users can delete their own notes only", "notes", "DELETE", "public", {"profiles"}),
      Policy("Users can view their own chat histories only", "n8n_chat_histories", "SELECT",
             "public", {"notebooks"}),
      Policy("Users can insert chat histories", "n8n_chat_histories", "INSERT",
             "public", {"notebooks"}),
      Policy("Service role can manage chat histories", "n8n_chat_histories", "ALL",
             "service_role", {}),
      Policy("Users can view documents from all notebooks", "documents", "SELECT", "public", {}),
      Policy("Only admin can insert documents", "documents", "INSERT", "public", {"profiles"}),
      Policy("Service role can manage all documents", "documents", "ALL", "service_role", {}),
      Policy("Users can view their own security attempts", "security_question_attempts",
             "SELECT", "public", {}),
      Policy("Users can insert their own security attempts", "security_question_attempts",
             "INSERT", "public", {}),
      Policy("Service role can manage security attempts", "security_question_attempts",
             "ALL", "service_role", {}) }

\* no statement is being rewritten
NoQuery == [role |-> "anon", cmd |-> "none", tbl |-> "none",
            activeRIRs |-> <<>>, pending |-> <<>>, outcome |-> "idle"]

\* the catalog after consolidated_migration.sql on a fresh database
PlannerIdle ==
    /\ pg_policies = ConsolidatedPolicies
    /\ rewriter = NoQuery

\* ------------------------------------------------------------------ client
\* const maxAttempts = 3
maxAttempts == 3

\* useState initial values of ForgotPassword
FormInitial == [step |-> "email", userId |-> NULL, attempts |-> 0]

\* no call of checkSecurityAnswer in flight
NoCall == [pc |-> "idle", userId |-> NULL, answer |-> "", rows |-> {},
           result |-> FALSE, prior |-> 0, started |-> 0]

\* a freshly loaded page without a session
ClientIdle ==
    /\ session = Principal("anon", NULL)
    /\ form = FormInitial
    /\ call = NoCall
    /\ wrong = {}

\* ------------------------------------------------------------ AuthProvider
\* access tokens issued by the auth server
MaxTokens == 2

\* profile fetches of updateAuthState in flight at a time
MaxFetches == 2

Tokens == 1..MaxTokens

\* Session | null: null is the session without token and user
Session(t, u) == [access_token |-> t, user |-> u]

NoSession == Session(NULL, NULL)

\* UserProfile | null
NoProfile == [id |-> NULL, role |-> "none"]

\* the useState initial values of AuthProvider
ProviderInitial ==
    [session |-> NoSession, user |-> NULL, userProfile |-> NoProfile,
     loading |-> TRUE, error |-> ""]

\* the effect runs once (empty dependency array): its listener and
\* initializeAuth keep the session, loading and error of the first render
ListenerClosure == [session |-> NoSession, loading |-> TRUE, error |-> ""]

\* the event the listener handled last: its name, whether the session held by
\* AuthProvider at that time had another access token than the event's session,
\* and whether the handler called updateAuthState
Handled(e, differs, updated) == [name |-> e, differs |-> differs, updated |-> updated]

NoEvent == Handled("", FALSE, FALSE)

\* toast({ title, description }), kept with the call that raised it: the
\* handler, the user id it was called for, the profile AuthProvider held and
\* the statements the call had sent
Toast(title, description, op, userId, by, sent) ==
    [title |-> title, description |-> description, op |-> op, userId |-> userId,
     by |-> by, sent |-> sent]

NoToast == Toast("", "", "", NULL, NoProfile, {})

\* the effect has run: initializeAuth awaits getSession, the listener is
\* registered and will be told INITIAL_SESSION
TasksInitial ==
    [initializeAuth |-> "awaiting", initialSession |-> "due", signOut |-> "idle",
     fetches |-> {}, event |-> NoEvent]

\* AuthProvider is mounted: the listener is registered, initializeAuth awaits
\* getSession, nobody is signed in. Nothing is shown.
ReactIdle ==
    /\ provider = ProviderInitial
    /\ tasks = TasksInitial
    /\ toast = NoToast
    /\ currentSession = NoSession

\* isAuthenticated: !!session
isAuthenticated == provider.session # NoSession

\* isAdmin: userProfile?.role === 'admin'
isAdmin == provider.userProfile.role = "admin"

\* what AdminRoute renders
AdminRoute ==
    IF provider.loading THEN "loading"
    ELSE IF provider.userProfile = NoProfile \/ provider.userProfile.role # "admin"
         THEN "fallback or Navigate to /"
    ELSE "children"

\* ----------------------------------------------------------------- initial
Init ==
    /\ auth_users = {}
    /\ profiles = {}
    /\ notebooks = {}
    /\ sources = {}
    /\ notes = {}
    /\ n8n_chat_histories = {}
    /\ documents = {}
    /\ security_question_attempts = {}
    /\ now = 0
    /\ last = Statement("none", "none", anon, NULL, {}, "")
    /\ ClientIdle
    /\ PlannerIdle
    /\ ReactIdle

\* ------------------------------------------------------- actions: profiles
\* sign-up: INSERT INTO auth.users fires on_auth_user_created
handle_new_user(u) ==
    /\ u \notin auth_users
    /\ auth_users' = auth_users \cup {u}
    /\ profiles' = profiles \cup {[id |-> u, role |-> "user", security_answer_hash |-> ""]}
    /\ last' = Statement("INSERT", "auth.users", anon, u, {u}, "")
    /\ UNCHANGED <<notebooks, sources, notes, n8n_chat_histories, documents,
                   security_question_attempts, now, client,
                   planner, react>>

\* INSERT INTO profiles (id, role) VALUES (id, role)
InsertProfile(p, id, role) ==
    LET row == [id |-> id, role |-> role, security_answer_hash |-> ""]
        err == IF ~profiles_insert_check(p, row) THEN "policy"
               ELSE IF id \in IdsOf(profiles)    \* PRIMARY KEY
                       \/ id \notin auth_users   \* REFERENCES auth.users(id)
                    THEN "constraint"
               ELSE ""
        ok == err = ""
    IN  /\ profiles' = IF ok THEN profiles \cup {row} ELSE profiles
        /\ last' = Statement("INSERT", "profiles", p, id, IF ok THEN {id} ELSE {}, err)
        /\ UNCHANGED <<auth_users, notebooks, sources, notes, n8n_chat_histories,
                       documents, security_question_attempts, now, client,
                   planner, react>>

\* UPDATE profiles SET role = newRole [WHERE id = w]
UpdateProfileRole(p, w, newRole) ==
    LET hit == {r \in profiles :
                    /\ Where(w, r.id)
                    /\ Reads(w) => profiles_select(p, r)
                    /\ profiles_update_using(p, r)}
        new(r) == [r EXCEPT !.role = newRole]
        ok == \A r \in hit :
                    /\ profiles_update_check(p, new(r))
                    /\ Reads(w) => profiles_select(p, new(r))
    IN  /\ profiles' = IF ok THEN (profiles \ hit) \cup {new(r) : r \in hit}
                       ELSE profiles
        /\ last' = Statement("UPDATE", "profiles", p, w, IF ok THEN IdsOf(hit) ELSE {},
                            IF ok THEN "" ELSE "policy")
        /\ UNCHANGED <<auth_users, notebooks, sources, notes, n8n_chat_histories,
                       documents, security_question_attempts, now, client,
                   planner, react>>

\* DELETE FROM profiles [WHERE id = w]; the record of the statement also keeps
\* the notes that went by cascade
DeleteProfile(p, w) ==
    LET hit == {r \in profiles :
                    /\ Where(w, r.id)
                    /\ Reads(w) => profiles_select(p, r)
                    /\ profiles_delete_using(p, r)}
        gone == IdsOf(hit)
        goneNb == IdsOf({n \in notebooks : n.user_id \in gone})
    IN  /\ profiles' = profiles \ hit
        /\ notebooks' = CascadeNotebooks(gone)
        /\ sources' = CascadeSources(goneNb)
        /\ notes' = CascadeNotes(gone, goneNb)
        /\ security_question_attempts' = CascadeAttempts(gone)
        /\ last' = Statement("DELETE", "profiles", p, w, gone, "")
                        @@ [cascaded_notes |-> notes \ CascadeNotes(gone, goneNb)]
        /\ UNCHANGED <<auth_users, n8n_chat_histories, documents, now, client,
                   planner, react>>

NextProfiles ==
    \/ \E u \in Users : handle_new_user(u)
    \/ \E p \in Principals, id \in Users, r \in Roles : InsertProfile(p, id, r)
    \/ \E p \in Principals, w \in Users \cup {NULL}, r \in Roles : UpdateProfileRole(p, w, r)
    \/ \E p \in Principals, w \in Users \cup {NULL} : DeleteProfile(p, w)

SpecProfiles == Init /\ [][NextProfiles]_vars

\* ---------------------------------------------------- populated databases
\* uuid_generate_v4(): an id no row of the table has
FreeId(ids, rows) == CHOOSE i \in ids \ IdsOf(rows) : \A j \in ids \ IdsOf(rows) : i <= j

\* every user signed up, roles as given (the service key or an admin set them)
Seeded(roleOf) ==
    /\ auth_users = Users
    /\ profiles = {[id |-> u, role |-> roleOf[u], security_answer_hash |-> ""] : u \in Users}

\* notebook i belongs to user ((i - 1) % MaxUsers) + 1; an admin created it
SeedNotebooks == {[id |-> i, user_id |-> ((i - 1) % MaxUsers) + 1] : i \in NotebookIds}

\* --------------------------------------------------------- actions: notes
\* SELECT * FROM notes [WHERE id = w]
SelectNotes(p, w) ==
    /\ last' = Statement("SELECT", "notes", p, w,
                         IdsOf({n \in notes : Where(w, n.id) /\ notes_select(p, n)}), "")
    /\ UNCHANGED <<auth_users, profiles, notebooks, sources, notes, n8n_chat_histories,
                   documents, security_question_attempts, now, client,
                   planner, react>>

\* INSERT INTO notes (user_id, notebook_id, ...) VALUES (owner, nb, ...)
InsertNote(p, nb, owner) ==
    /\ NoteIds \ IdsOf(notes) # {}
    /\ LET row == [id |-> FreeId(NoteIds, notes), notebook_id |-> nb, user_id |-> owner]
           err == IF ~notes_insert_check(p, row) THEN "policy"
                  ELSE IF nb \notin IdsOf(notebooks)        \* NOT NULL REFERENCES notebooks(id)
                          \/ owner \notin IdsOf(profiles)   \* NOT NULL REFERENCES profiles(id)
                       THEN "constraint"
                  ELSE ""
       IN  /\ notes' = IF err = "" THEN notes \cup {row} ELSE notes
           /\ last' = Statement("INSERT", "notes", p, NULL,
                                IF err = "" THEN {row.id} ELSE {}, err)
    /\ UNCHANGED <<auth_users, profiles, notebooks, sources, n8n_chat_histories,
                   documents, security_question_attempts, now, client,
                   planner, react>>

\* UPDATE notes SET user_id = owner [WHERE id = w]
UpdateNoteOwner(p, w, owner) ==
    LET hit == {n \in notes :
                    /\ Where(w, n.id)
                    /\ Reads(w) => notes_select(p, n)
                    /\ notes_update_using(p, n)}
        new(n) == [n EXCEPT !.user_id = owner]
        err == IF \E n \in hit : ~notes_update_check(p, new(n))
                                 \/ (Reads(w) /\ ~notes_select(p, new(n)))
               THEN "policy"
               ELSE IF hit # {} /\ owner \notin IdsOf(profiles) THEN "constraint"
               ELSE ""
    IN  /\ notes' = IF err = "" THEN (notes \ hit) \cup {new(n) : n \in hit} ELSE notes
        /\ last' = Statement("UPDATE", "notes", p, w, IF err = "" THEN IdsOf(hit) ELSE {}, err)
        /\ UNCHANGED <<auth_users, profiles, notebooks, sources, n8n_chat_histories,
                       documents, security_question_attempts, now, client,
                   planner, react>>

\* DELETE FROM notes [WHERE id = w]
DeleteNote(p, w) ==
    LET hit == {n \in notes :
                    /\ Where(w, n.id)
                    /\ Reads(w) => notes_select(p, n)
                    /\ notes_delete_using(p, n)}
    IN  /\ notes' = notes \ hit
        /\ last' = Statement("DELETE", "notes", p, w, IdsOf(hit), "")
        /\ UNCHANGED <<auth_users, profiles, notebooks, sources, n8n_chat_histories,
                       documents, security_question_attempts, now, client,
                   planner, react>>

InitNotes ==
    /\ \E roleOf \in [Users -> Roles] : Seeded(roleOf)
    /\ notebooks = SeedNotebooks
    /\ sources = {}
    /\ notes = {}
    /\ n8n_chat_histories = {}
    /\ documents = {}
    /\ security_question_attempts = {}
    /\ now = 0
    /\ last = Statement("none", "none", anon, NULL, {}, "")
    /\ ClientIdle
    /\ PlannerIdle
    /\ ReactIdle

NextNotes ==
    \/ \E p \in Principals, w \in NoteIds \cup {NULL} : SelectNotes(p, w)
    \/ \E p \in Principals, nb \in NotebookIds \cup {NULL}, o \in Users : InsertNote(p, nb, o)
    \/ \E p \in Principals, w \in NoteIds \cup {NULL}, o \in Users : UpdateNoteOwner(p, w, o)
    \/ \E p \in Principals, w \in NoteIds \cup {NULL} : DeleteNote(p, w)

SpecNotes == InitNotes /\ [][NextNotes]_vars

\* ------------------------------------------- actions: notebooks, sources
\* INSERT INTO notebooks (user_id, ...) VALUES (owner, ...)   (createNotebook)
InsertNotebook(p, owner) ==
    /\ NotebookIds \ IdsOf(notebooks) # {}
    /\ LET row == [id |-> FreeId(NotebookIds, notebooks), user_id |-> owner]
           err == IF ~notebooks_insert_check(p, row) THEN "policy"
                  ELSE IF owner \notin IdsOf(profiles) THEN "constraint"
                  ELSE ""
       IN  /\ notebooks' = IF err = "" THEN notebooks \cup {row} ELSE notebooks
           /\ last' = Statement("INSERT", "notebooks", p, NULL,
                                IF err = "" THEN {row.id} ELSE {}, err)
    /\ UNCHANGED <<auth_users, profiles, sources, notes, n8n_chat_histories,
                   documents, security_question_attempts, now, client,
                   planner, react>>

\* UPDATE notebooks SET user_id = owner [WHERE id = w]
UpdateNotebookOwner(p, w, owner) ==
    LET hit == {n \in notebooks :
                    /\ Where(w, n.id)
                    /\ Reads(w) => notebooks_select(p, n)
                    /\ notebooks_update_using(p, n)}
        new(n) == [n EXCEPT !.user_id = owner]
        err == IF \E n \in hit : ~notebooks_update_check(p, new(n))
                                 \/ (Reads(w) /\ ~notebooks_select(p, new(n)))
               THEN "policy"
               ELSE IF hit # {} /\ owner \notin IdsOf(profiles) THEN "constraint"
               ELSE ""
    IN  /\ notebooks' = IF err = "" THEN (notebooks \ hit) \cup {new(n) : n \in hit}
                        ELSE notebooks
        /\ last' = Statement("UPDATE", "notebooks", p, w,
                             IF err = "" THEN IdsOf(hit) ELSE {}, err)
        /\ UNCHANGED <<auth_users, profiles, sources, notes, n8n_chat_histories,
                       documents, security_question_attempts, now, client,
                   planner, react>>

\* DELETE FROM notebooks [WHERE id = w]
DeleteNotebook(p, w) ==
    LET hit == {n \in notebooks :
                    /\ Where(w, n.id)
                    /\ Reads(w) => notebooks_select(p, n)
                    /\ notebooks_delete_using(p, n)}
    IN  /\ notebooks' = notebooks \ hit
        /\ sources' = CascadeSources(IdsOf(hit))
        /\ notes' = CascadeNotes({}, IdsOf(hit))
        /\ last' = Statement("DELETE", "notebooks", p, w, IdsOf(hit), "")
        /\ UNCHANGED <<auth_users, profiles, n8n_chat_histories, documents,
                       security_question_attempts, now, client,
                   planner, react>>

\* INSERT INTO sources (notebook_id, ...) VALUES (nb, ...)
InsertSource(p, nb) ==
    /\ SourceIds \ IdsOf(sources) # {}
    /\ LET row == [id |-> FreeId(SourceIds, sources), notebook_id |-> nb]
           err == IF ~sources_insert_check(p, row) THEN "policy"
                  ELSE IF nb \notin IdsOf(notebooks) THEN "constraint"
                  ELSE ""
       IN  /\ sources' = IF err = "" THEN sources \cup {row} ELSE sources
           /\ last' = Statement("INSERT", "sources", p, NULL,
                                IF err = "" THEN {row.id} ELSE {}, err)
    /\ UNCHANGED <<auth_users, profiles, notebooks, notes, n8n_chat_histories,
                   documents, security_question_attempts, now, client,
                   planner, react>>

\* UPDATE sources SET notebook_id = nb [WHERE id = w]
UpdateSource(p, w, nb) ==
    LET hit == {r \in sources :
                    /\ Where(w, r.id)
                    /\ Reads(w) => sources_select(p, r)
                    /\ sources_update_using(p, r)}
        new(r) == [r EXCEPT !.notebook_id = nb]
        err == IF \E r \in hit : ~sources_update_check(p, new(r))
                                 \/ (Reads(w) /\ ~sources_select(p, new(r)))
               THEN "policy"
               ELSE IF hit # {} /\ nb \notin IdsOf(notebooks) THEN "constraint"
               ELSE ""
    IN  /\ sources' = IF err = "" THEN (sources \ hit) \cup {new(r) : r \in hit}
                      ELSE sources
        /\ last' = Statement("UPDATE", "sources", p, w,
                             IF err = "" THEN IdsOf(hit) ELSE {}, err)
        /\ UNCHANGED <<auth_users, profiles, notebooks, notes, n8n_chat_histories,
                       documents, security_question_attempts, now, client,
                   planner, react>>

\* DELETE FROM sources [WHERE id = w]
DeleteSource(p, w) ==
    LET hit == {r \in sources :
                    /\ Where(w, r.id)
                    /\ Reads(w) => sources_select(p, r)
                    /\ sources_delete_using(p, r)}
    IN  /\ sources' = sources \ hit
        /\ last' = Statement("DELETE", "sources", p, w, IdsOf(hit), "")
        /\ UNCHANGED <<auth_users, profiles, notebooks, notes, n8n_chat_histories,
                       documents, security_question_attempts, now, client,
                   planner, react>>

InitContent ==
    /\ \E roleOf \in [Users -> Roles] : Seeded(roleOf)
    /\ notebooks = {}
    /\ sources = {}
    /\ notes = {}
    /\ n8n_chat_histories = {}
    /\ documents = {}
    /\ security_question_attempts = {}
    /\ now = 0
    /\ last = Statement("none", "none", anon, NULL, {}, "")
    /\ ClientIdle
    /\ PlannerIdle
    /\ ReactIdle

NextContent ==
    \/ \E p \in Principals, o \in Users : InsertNotebook(p, o)
    \/ \E p \in Principals, w \in NotebookIds \cup {NULL}, o \in Users :
            UpdateNotebookOwner(p, w, o)
    \/ \E p \in Principals, w \in NotebookIds \cup {NULL} : DeleteNotebook(p, w)
    \/ \E p \in Principals, nb \in NotebookIds : InsertSource(p, nb)
    \/ \E p \in Principals, w \in SourceIds \cup {NULL}, nb \in NotebookIds :
            UpdateSource(p, w, nb)
    \/ \E p \in Principals, w \in SourceIds \cup {NULL} : DeleteSource(p, w)

SpecContent == InitContent /\ [][NextContent]_vars

\* ----------------------------------------------- actions: chat histories
\* a uuid that is the id of no notebook
NoNotebook == MaxNotebooks + 1

SessionIds == NotebookIds \cup {NoNotebook}

\* SELECT * FROM n8n_chat_histories [WHERE id = w]
SelectChat(p, w) ==
    /\ last' = Statement("SELECT", "n8n_chat_histories", p, w,
                         IdsOf({c \in n8n_chat_histories :
                                    Where(w, c.id) /\ chat_select(p, c)}), "")
    /\ UNCHANGED <<auth_users, profiles, notebooks, sources, notes, n8n_chat_histories,
                   documents, security_question_attempts, now, client,
                   planner, react>>

\* INSERT INTO n8n_chat_histories (session_id, message) VALUES (sid, ...);
\* session_id has no foreign key
InsertChat(p, sid) ==
    /\ ChatIds \ IdsOf(n8n_chat_histories) # {}
    /\ LET row == [id |-> FreeId(ChatIds, n8n_chat_histories), session_id |-> sid]
           err == IF ~chat_insert_check(p, row) THEN "policy" ELSE ""
       IN  /\ n8n_chat_histories' = IF err = "" THEN n8n_chat_histories \cup {row}
                                    ELSE n8n_chat_histories
           /\ last' = Statement("INSERT", "n8n_chat_histories", p, NULL,
                                IF err = "" THEN {row.id} ELSE {}, err)
    /\ UNCHANGED <<auth_users, profiles, notebooks, sources, notes, documents,
                   security_question_attempts, now, client,
                   planner, react>>

\* UPDATE n8n_chat_histories SET session_id = sid [WHERE id = w]
UpdateChat(p, w, sid) ==
    LET hit == {c \in n8n_chat_histories :
                    /\ Where(w, c.id)
                    /\ Reads(w) => chat_select(p, c)
                    /\ chat_update_using(p, c)}
        new(c) == [c EXCEPT !.session_id = sid]
        err == IF \E c \in hit : ~chat_update_using(p, new(c))
                                 \/ (Reads(w) /\ ~chat_select(p, new(c)))
               THEN "policy" ELSE ""
    IN  /\ n8n_chat_histories' = IF err = ""
                                 THEN (n8n_chat_histories \ hit) \cup {new(c) : c \in hit}
                                 ELSE n8n_chat_histories
        /\ last' = Statement("UPDATE", "n8n_chat_histories", p, w,
                             IF err = "" THEN IdsOf(hit) ELSE {}, err)
        /\ UNCHANGED <<auth_users, profiles, notebooks, sources, notes, documents,
                       security_question_attempts, now, client,
                   planner, react>>

\* DELETE FROM n8n_chat_histories [WHERE id = w]
DeleteChat(p, w) ==
    LET hit == {c \in n8n_chat_histories :
                    /\ Where(w, c.id)
                    /\ Reads(w) => chat_select(p, c)
                    /\ chat_delete_using(p, c)}
    IN  /\ n8n_chat_histories' = n8n_chat_histories \ hit
        /\ last' = Statement("DELETE", "n8n_chat_histories", p, w, IdsOf(hit), "")
        /\ UNCHANGED <<auth_users, profiles, notebooks, sources, notes, documents,
                       security_question_attempts, now, client,
                   planner, react>>

InitChat ==
    /\ \E roleOf \in [Users -> Roles] : Seeded(roleOf)
    /\ notebooks = SeedNotebooks
    /\ sources = {}
    /\ notes = {}
    /\ n8n_chat_histories = {}
    /\ documents = {}
    /\ security_question_attempts = {}
    /\ now = 0
    /\ last = Statement("none", "none", anon, NULL, {}, "")
    /\ ClientIdle
    /\ PlannerIdle
    /\ ReactIdle

NextChat ==
    \/ \E p \in Principals, w \in ChatIds \cup {NULL} : SelectChat(p, w)
    \/ \E p \in Principals, sid \in SessionIds : InsertChat(p, sid)
    \/ \E p \in Principals, w \in ChatIds \cup {NULL}, sid \in SessionIds :
            UpdateChat(p, w, sid)
    \/ \E p \in Principals, w \in ChatIds \cup {NULL} : DeleteChat(p, w)
    \/ \E p \in Principals, o \in Users : InsertNotebook(p, o)
    \/ \E p \in Principals, w \in NotebookIds \cup {NULL} : DeleteNotebook(p, w)

SpecChat == InitChat /\ [][NextChat]_vars

\* ------------------------------------------ actions: password recovery
\* answer.toLowerCase().trim()
Normalise(a) ==
    CASE a = "Rex" -> "rex"
      [] a = "rex " -> "rex"
      [] OTHER -> a

\* bcrypt.hash(s, saltRounds) as far as bcrypt.compare can tell
bcrypt_hash(s) ==
    CASE s = "rex" -> "$2a$12$rex"
      [] s = "tom" -> "$2a$12$tom"
      [] OTHER -> "$2a$12$other"

bcrypt_compare(s, h) == h = bcrypt_hash(s)

\* the answer every user gave at sign-up
RegisteredAnswer == "Rex"

\* supabase.auth sign-in (this tab or another one); onAuthStateChange SIGNED_IN
SignIn(u) ==
    /\ u \in auth_users
    /\ session # authenticated(u)
    /\ session' = authenticated(u)
    /\ UNCHANGED <<auth_users, profiles, notebooks, sources, notes, n8n_chat_histories,
                   documents, security_question_attempts, now, last, form, call, wrong,
                   planner, react>>

\* supabase.auth.signOut(); onAuthStateChange SIGNED_OUT
signOut ==
    /\ session # anon
    /\ session' = anon
    /\ UNCHANGED <<auth_users, profiles, notebooks, sources, notes, n8n_chat_histories,
                   documents, security_question_attempts, now, last, form, call, wrong,
                   planner, react>>

\* the database clock advances
Tick ==
    /\ now < MaxTime
    /\ now' = now + 1
    /\ UNCHANGED <<auth_users, profiles, notebooks, sources, notes, n8n_chat_histories,
                   documents, security_question_attempts, last, client,
                   planner, react>>

\* the page is loaded again: the component state is the initial one and a call
\* in flight is gone with the page; the session is kept in local storage
Reload ==
    /\ form # FormInitial \/ call # NoCall
    /\ form' = FormInitial
    /\ call' = NoCall
    /\ UNCHANGED <<auth_users, profiles, notebooks, sources, notes, n8n_chat_histories,
                   documents, security_question_attempts, now, last, session, wrong,
                   planner, react>>

\* getUserSecurityQuestion(email) with the e-mail address of user t: SELECT id,
\* security_question FROM profiles WHERE email = ... (.single()); the question
\* is stored together with the answer's hash
getUserSecurityQuestion(t) ==
    {r \in profiles : r.id = t /\ profiles_select(session, r)}

\* handleEmailSubmit going on with any row found, question or not
EmailSubmitOutcome_AnyRow(found) ==
    IF found # {}
    THEN [step |-> "security", title |-> "", description |-> ""]
    ELSE [step |-> "email", title |-> "Security Question",
          description |-> "If an account with this email exists, you will see the security question."]

\* what the user sees after handleEmailSubmit, given the rows the query returned
EmailSubmitOutcome(found) ==
    IF \E r \in found : r.security_answer_hash # ""
    THEN [step |-> "security", title |-> "", description |-> ""]
    ELSE [step |-> "email", title |-> "Security Question",
          description |-> "If an account with this email exists, you will see the security question."]

\* handleEmailSubmit with the e-mail address of user t
handleEmailSubmit(t) ==
    /\ form.step = "email"
    /\ LET found == getUserSecurityQuestion(t)
           seen == EmailSubmitOutcome(found)
       IN  /\ form' = IF seen.step = "security"
                      THEN [form EXCEPT !.step = "security", !.userId = t]
                      ELSE form
           /\ toast' = IF seen.step = "security" THEN toast
                       ELSE Toast(seen.title, seen.description, "handleEmailSubmit", t,
                                  NoProfile, {"SELECT"})
           /\ last' = Statement("SELECT", "profiles", session, t, IdsOf(found), "")
    /\ UNCHANGED <<auth_users, profiles, notebooks, sources, notes, n8n_chat_histories,
                   documents, security_question_attempts, now, session, call, wrong,
                   planner, provider, tasks, currentSession>>

\* the failure rows on record for user u, written by calls that returned false,
\* with no time passed since
FailuresOnRecord(u) ==
    {r \in security_question_attempts :
        /\ r.user_id = u
        /\ ~r.success
        /\ r.attempted_at = now
        /\ r.id \in wrong}

\* INSERT INTO security_question_attempts (user_id, ip_address, success)
InsertAttempt(row) ==
    IF ~attempts_insert_check(session, row) THEN "policy"
    ELSE IF row.user_id \notin IdsOf(profiles) THEN "constraint"
    ELSE ""

\* handleSecurityAnswerSubmit up to the first await of checkSecurityAnswer:
\* the guards of the handler, then the insert of the attempt with success:
\* false, whose result is not looked at
handleSecurityAnswerSubmit(a) ==
    /\ form.step = "security"
    /\ form.userId # NULL
    /\ form.attempts < maxAttempts
    /\ call.pc = "idle"
    /\ AttemptIds \ IdsOf(security_question_attempts) # {}
    /\ LET row == [id |-> FreeId(AttemptIds, security_question_attempts),
                   user_id |-> form.userId, attempted_at |-> now, success |-> FALSE]
           err == InsertAttempt(row)
       IN  /\ security_question_attempts' =
                IF err = "" THEN security_question_attempts \cup {row}
                ELSE security_question_attempts
           /\ call' = [pc |-> "logged", userId |-> form.userId, answer |-> a,
                       rows |-> IF err = "" THEN {row.id} ELSE {},
                       result |-> FALSE,
                       prior |-> Cardinality(FailuresOnRecord(form.userId)),
                       started |-> now]
           /\ last' = Statement("INSERT", "security_question_attempts", session, NULL,
                                IF err = "" THEN {row.id} ELSE {}, err)
    /\ UNCHANGED <<auth_users, profiles, notebooks, sources, notes, n8n_chat_histories,
                   documents, now, session, form, wrong,
                   planner, react>>

\* checkSecurityAnswer: SELECT security_answer_hash FROM profiles WHERE id =
\* userId (.single()), then bcrypt.compare; without a row or a hash, or with a
\* wrong answer, the call returns false
checkSecurityAnswer_compare ==
    /\ call.pc = "logged"
    /\ LET found == {r \in profiles : r.id = call.userId /\ profiles_select(session, r)}
           isValid == \E r \in found :
                          /\ r.security_answer_hash # ""
                          /\ bcrypt_compare(Normalise(call.answer), r.security_answer_hash)
       IN  /\ call' = [call EXCEPT !.pc = IF isValid THEN "valid" ELSE "done"]
           /\ last' = Statement("SELECT", "profiles", session, call.userId,
                                IdsOf(found), "")
    /\ UNCHANGED <<auth_users, profiles, notebooks, sources, notes, n8n_chat_histories,
                   documents, security_question_attempts, now, session, form, wrong,
                   planner, react>>

\* checkSecurityAnswer, isValid: the insert of the attempt with success: true,
\* whose result is not looked at either, then return isValid
checkSecurityAnswer_logSuccess ==
    /\ call.pc = "valid"
    /\ AttemptIds \ IdsOf(security_question_attempts) # {}
    /\ LET row == [id |-> FreeId(AttemptIds, security_question_attempts),
                   user_id |-> call.userId, attempted_at |-> now, success |-> TRUE]
           err == InsertAttempt(row)
       IN  /\ security_question_attempts' =
                IF err = "" THEN security_question_attempts \cup {row}
                ELSE security_question_attempts
           /\ call' = [call EXCEPT !.pc = "done", !.result = TRUE,
                                   !.rows = IF err = "" THEN @ \cup {row.id} ELSE @]
           /\ last' = Statement("INSERT", "security_question_attempts", session, NULL,
                                IF err = "" THEN {row.id} ELSE {}, err)
    /\ UNCHANGED <<auth_users, profiles, notebooks, sources, notes, n8n_chat_histories,
                   documents, now, session, form, wrong,
                   planner, react>>

\* handleSecurityAnswerSubmit after the await: the next step on a right
\* answer, one more attempt counted on a wrong one
handleSecurityAnswerSubmit_result ==
    /\ call.pc = "done"
    /\ form' = IF call.result THEN [form EXCEPT !.step = "newPassword"]
               ELSE [form EXCEPT !.attempts = @ + 1]
    /\ wrong' = IF call.result THEN wrong ELSE wrong \cup call.rows
    /\ toast' =
        IF call.result
        THEN Toast("Security Answer Correct", "Please enter your new password.",
                   "handleSecurityAnswerSubmit", call.userId, NoProfile, {})
        ELSE IF maxAttempts - form.attempts - 1 <= 0
        THEN Toast("Account Locked", "Too many failed attempts. Please try again later.",
                   "handleSecurityAnswerSubmit", call.userId, NoProfile, {})
        ELSE Toast("Incorrect Answer", "Security answer is incorrect.",
                   "handleSecurityAnswerSubmit", call.userId, NoProfile, {})
    /\ call' = NoCall
    /\ UNCHANGED <<auth_users, profiles, notebooks, sources, notes, n8n_chat_histories,
                   documents, security_question_attempts, now, last, session,
                   planner, provider, tasks, currentSession>>

\* handlePasswordReset, shown in step 'newPassword': the checks of the two
\* password fields, then updatePassword(userId, newPassword), which invokes the
\* function update-password; on success the page is left for /auth
handlePasswordReset(fields, success) ==
    /\ form.step = "newPassword"
    /\ call.pc = "idle"
    /\ IF fields # "ok" \/ form.userId = NULL
       THEN /\ toast' = Toast("Validation Error", fields, "handlePasswordReset",
                              form.userId, NoProfile, {})
            /\ UNCHANGED <<form, last>>
       ELSE /\ last' = Statement("INVOKE", "update-password", session, form.userId,
                                 IF success THEN {form.userId} ELSE {},
                                 IF success THEN "" ELSE "failed")
            /\ toast' = IF success
                        THEN Toast("Password Reset Successful",
                                   "Your password has been updated.",
                                   "handlePasswordReset", form.userId, NoProfile, {"INVOKE"})
                        ELSE Toast("Password Reset Failed", "Failed to update password.",
                                   "handlePasswordReset", form.userId, NoProfile, {"INVOKE"})
            /\ form' = IF success THEN FormInitial ELSE form
    /\ UNCHANGED <<auth_users, profiles, notebooks, sources, notes, n8n_chat_histories,
                   documents, security_question_attempts, now, session, call, wrong,
                   planner, provider, tasks, currentSession>>

\* the first user has signed up with a security answer; nobody is signed in
InitLedger ==
    /\ auth_users = {1}
    /\ profiles = {[id |-> 1, role |-> "user",
                    security_answer_hash |-> bcrypt_hash(Normalise(RegisteredAnswer))]}
    /\ notebooks = {}
    /\ sources = {}
    /\ notes = {}
    /\ n8n_chat_histories = {}
    /\ documents = {}
    /\ security_question_attempts = {}
    /\ now = 0
    /\ last = Statement("none", "none", anon, NULL, {}, "")
    /\ ClientIdle
    /\ PlannerIdle
    /\ ReactIdle

NextLedger ==
    \/ \E u \in Users : SignIn(u)
    \/ signOut
    \/ Tick
    \/ Reload
    \/ \E t \in Users : handleEmailSubmit(t)
    \/ \E a \in Answers : handleSecurityAnswerSubmit(a)
    \/ checkSecurityAnswer_compare
    \/ checkSecurityAnswer_logSuccess
    \/ handleSecurityAnswerSubmit_result

SpecLedger == InitLedger /\ [][NextLedger]_vars

\* what the password fields can be: in order, or failing one of the three checks
PasswordFields == {"ok", "All fields are required.", "Passwords do not match.",
                   "Password must be at least 8 characters long."}

\* the three steps of ForgotPassword
\* user 1 has signed up with a security answer, user 2 without (the update of
\* the profile after signUp failed); nobody is signed in
InitRecovery ==
    /\ auth_users = {1, 2}
    /\ profiles = {[id |-> 1, role |-> "user",
                    security_answer_hash |-> bcrypt_hash(Normalise(RegisteredAnswer))],
                   [id |-> 2, role |-> "user", security_answer_hash |-> ""]}
    /\ notebooks = {}
    /\ sources = {}
    /\ notes = {}
    /\ n8n_chat_histories = {}
    /\ documents = {}
    /\ security_question_attempts = {}
    /\ now = 0
    /\ last = Statement("none", "none", anon, NULL, {}, "")
    /\ ClientIdle
    /\ PlannerIdle
    /\ ReactIdle

NextRecovery ==
    \/ \E u \in Users : SignIn(u)
    \/ signOut
    \/ Reload
    \/ \E t \in Users : handleEmailSubmit(t)
    \/ \E a \in Answers : handleSecurityAnswerSubmit(a)
    \/ checkSecurityAnswer_compare
    \/ checkSecurityAnswer_logSuccess
    \/ handleSecurityAnswerSubmit_result
    \/ \E f \in PasswordFields, ok \in BOOLEAN : handlePasswordReset(f, ok)

SpecRecovery == InitRecovery /\ [][NextRecovery]_vars

\* ------------------------------------------------ actions: user directory
\* SELECT * FROM profiles [WHERE id = w]   (the users query of useUserProfiles,
\* the profile fetch of updateAuthState)
SelectProfiles(p, w) ==
    /\ last' = Statement("SELECT", "profiles", p, w,
                         IdsOf({r \in profiles : Where(w, r.id) /\ profiles_select(p, r)}),
                         "")
    /\ UNCHANGED <<auth_users, profiles, notebooks, sources, notes, n8n_chat_histories,
                   documents, security_question_attempts, now, client,
                   planner, react>>

InitDirectory ==
    /\ \E roleOf \in [Users -> Roles] : Seeded(roleOf)
    /\ notebooks = {}
    /\ sources = {}
    /\ notes = {}
    /\ n8n_chat_histories = {}
    /\ documents = {}
    /\ security_question_attempts = {}
    /\ now = 0
    /\ last = Statement("none", "none", anon, NULL, {}, "")
    /\ ClientIdle
    /\ PlannerIdle
    /\ ReactIdle

NextDirectory ==
    \/ \E p \in Principals, w \in Users \cup {NULL} : SelectProfiles(p, w)
    \/ \E p \in Principals, w \in Users \cup {NULL}, r \in Roles : UpdateProfileRole(p, w, r)
    \/ \E p \in Principals, w \in Users \cup {NULL} : DeleteProfile(p, w)

SpecDirectory == InitDirectory /\ [][NextDirectory]_vars

\* --------------------------------- actions: documents, attempts as tables
Contents == {"old", "new"}

\* the ids the first MaxLogged attempts get
LoggedIds == 1..MaxLogged

\* user 1 was made admin, the others have the default role
OneAdmin == [u \in Users |-> IF u = 1 THEN "admin" ELSE "user"]

\* INSERT INTO documents (content, ...) VALUES (c, ...)
InsertDocument(p, c) ==
    /\ DocumentIds \ IdsOf(documents) # {}
    /\ LET row == [id |-> FreeId(DocumentIds, documents), content |-> c]
           err == IF ~documents_insert_check(p, row) THEN "policy" ELSE ""
       IN  /\ documents' = IF err = "" THEN documents \cup {row} ELSE documents
           /\ last' = Statement("INSERT", "documents", p, NULL,
                                IF err = "" THEN {row.id} ELSE {}, err)
    /\ UNCHANGED <<auth_users, profiles, notebooks, sources, notes, n8n_chat_histories,
                   security_question_attempts, now, client,
                   planner, react>>

\* UPDATE documents SET content = c [WHERE id = w]
UpdateDocument(p, w, c) ==
    LET hit == {d \in documents :
                    /\ Where(w, d.id)
                    /\ Reads(w) => documents_select(p, d)
                    /\ documents_update_using(p, d)}
        new(d) == [d EXCEPT !.content = c]
        err == IF \E d \in hit : ~documents_update_using(p, new(d)) THEN "policy" ELSE ""
    IN  /\ documents' = IF err = "" THEN (documents \ hit) \cup {new(d) : d \in hit}
                        ELSE documents
        /\ last' = Statement("UPDATE", "documents", p, w,
                             IF err = "" THEN IdsOf(hit) ELSE {}, err)
        /\ UNCHANGED <<auth_users, profiles, notebooks, sources, notes, n8n_chat_histories,
                       security_question_attempts, now, client,
                   planner, react>>

\* DELETE FROM documents [WHERE id = w]
DeleteDocument(p, w) ==
    LET hit == {d \in documents :
                    /\ Where(w, d.id)
                    /\ Reads(w) => documents_select(p, d)
                    /\ documents_delete_using(p, d)}
    IN  /\ documents' = documents \ hit
        /\ last' = Statement("DELETE", "documents", p, w, IdsOf(hit), "")
        /\ UNCHANGED <<auth_users, profiles, notebooks, sources, notes, n8n_chat_histories,
                       security_question_attempts, now, client,
                   planner, react>>

\* INSERT INTO security_question_attempts (user_id, success) VALUES (u, false)
LogAttempt(p, u) ==
    /\ Cardinality(security_question_attempts) < MaxLogged
    /\ LET row == [id |-> FreeId(LoggedIds, security_question_attempts),
                   user_id |-> u, attempted_at |-> now, success |-> FALSE]
           err == IF ~attempts_insert_check(p, row) THEN "policy"
                  ELSE IF u \notin IdsOf(profiles) THEN "constraint"
                  ELSE ""
       IN  /\ security_question_attempts' =
                IF err = "" THEN security_question_attempts \cup {row}
                ELSE security_question_attempts
           /\ last' = Statement("INSERT", "security_question_attempts", p, NULL,
                                IF err = "" THEN {row.id} ELSE {}, err)
    /\ UNCHANGED <<auth_users, profiles, notebooks, sources, notes, n8n_chat_histories,
                   documents, now, client,
                   planner, react>>

\* UPDATE security_question_attempts SET success = true [WHERE id = w]
UpdateAttempt(p, w) ==
    LET hit == {a \in security_question_attempts :
                    /\ Where(w, a.id)
                    /\ Reads(w) => attempts_select(p, a)
                    /\ attempts_update_using(p, a)}
        new(a) == [a EXCEPT !.success = TRUE]
        err == IF \E a \in hit : ~attempts_update_using(p, new(a)) THEN "policy" ELSE ""
    IN  /\ security_question_attempts' =
            IF err = "" THEN (security_question_attempts \ hit) \cup {new(a) : a \in hit}
            ELSE security_question_attempts
        /\ last' = Statement("UPDATE", "security_question_attempts", p, w,
                             IF err = "" THEN IdsOf(hit) ELSE {}, err)
        /\ UNCHANGED <<auth_users, profiles, notebooks, sources, notes, n8n_chat_histories,
                       documents, now, client,
                   planner, react>>

\* DELETE FROM security_question_attempts [WHERE id = w]
DeleteAttempt(p, w) ==
    LET hit == {a \in security_question_attempts :
                    /\ Where(w, a.id)
                    /\ Reads(w) => attempts_select(p, a)
                    /\ attempts_delete_using(p, a)}
    IN  /\ security_question_attempts' = security_question_attempts \ hit
        /\ last' = Statement("DELETE", "security_question_attempts", p, w, IdsOf(hit), "")
        /\ UNCHANGED <<auth_users, profiles, notebooks, sources, notes, n8n_chat_histories,
                       documents, now, client,
                   planner, react>>

InitRecords ==
    /\ Seeded(OneAdmin)
    /\ notebooks = {}
    /\ sources = {}
    /\ notes = {}
    /\ n8n_chat_histories = {}
    /\ documents = {}
    /\ security_question_attempts = {}
    /\ now = 0
    /\ last = Statement("none", "none", anon, NULL, {}, "")
    /\ ClientIdle
    /\ PlannerIdle
    /\ ReactIdle

NextRecords ==
    \/ \E p \in Principals, c \in Contents : InsertDocument(p, c)
    \/ \E p \in Principals, w \in DocumentIds \cup {NULL}, c \in Contents :
            UpdateDocument(p, w, c)
    \/ \E p \in Principals, w \in DocumentIds \cup {NULL} : DeleteDocument(p, w)
    \/ \E p \in Principals, u \in Users : LogAttempt(p, u)
    \/ \E p \in Principals, w \in LoggedIds \cup {NULL} : UpdateAttempt(p, w)
    \/ \E p \in Principals, w \in LoggedIds \cup {NULL} : DeleteAttempt(p, w)
    \/ \E p \in Principals, w \in Users \cup {NULL} : DeleteProfile(p, w)

SpecRecords == InitRecords /\ [][NextRecords]_vars

\* --------------------------------------------- actions: notebook listing
\* SELECT * FROM notebooks [WHERE id = w]   (the useNotebooks query)
SelectNotebooks(p, w) ==
    /\ last' = Statement("SELECT", "notebooks", p, w,
                         IdsOf({n \in notebooks : Where(w, n.id) /\ notebooks_select(p, n)}),
                         "")
    /\ UNCHANGED <<auth_users, profiles, notebooks, sources, notes, n8n_chat_histories,
                   documents, security_question_attempts, now, client,
                   planner, react>>

NextCatalog ==
    \/ \E p \in Principals, w \in NotebookIds \cup {NULL} : SelectNotebooks(p, w)
    \/ \E p \in Principals, o \in Users : InsertNotebook(p, o)
    \/ \E p \in Principals, w \in NotebookIds \cup {NULL}, o \in Users :
            UpdateNotebookOwner(p, w, o)
    \/ \E p \in Principals, w \in NotebookIds \cup {NULL} : DeleteNotebook(p, w)

SpecCatalog == InitContent /\ [][NextCatalog]_vars

\* ------------------------------------------------- foreign keys at work
InitCascade ==
    /\ Seeded(OneAdmin)
    /\ notebooks = SeedNotebooks
    /\ sources = {}
    /\ notes = {}
    /\ n8n_chat_histories = {}
    /\ documents = {}
    /\ security_question_attempts = {}
    /\ now = 0
    /\ last = Statement("none", "none", anon, NULL, {}, "")
    /\ ClientIdle
    /\ PlannerIdle
    /\ ReactIdle

\* the statements come from the principals that can write at all here: the
\* admin (sources, notes for any owner, other users' profiles) and the
\* service key (attempts, any profile)
Writers == {service_role, authenticated(1)}

NextCascade ==
    \/ \E p \in Writers, nb \in NotebookIds : InsertSource(p, nb)
    \/ \E p \in Writers, nb \in NotebookIds, o \in Users : InsertNote(p, nb, o)
    \/ \E p \in Writers, u \in Users : LogAttempt(p, u)
    \/ \E p \in Writers, w \in NotebookIds \cup {NULL} : DeleteNotebook(p, w)
    \/ \E p \in Writers, w \in Users \cup {NULL} : DeleteProfile(p, w)

SpecCascade == InitCascade /\ [][NextCascade]_vars

\* ------------------------------------------- actions: rewriting a statement
RequestRoles == {"anon", "authenticated", "service_role"}

Commands == {"SELECT", "INSERT", "UPDATE", "DELETE"}

\* the policies of cmd on rel that apply to role
Applicable(rel, cmd, role) ==
    {q \in pg_policies :
        /\ q.tbl = rel
        /\ q.cmd = cmd \/ q.cmd = "ALL"
        /\ q.to = "public" \/ q.to = role}

\* an UPDATE or DELETE reads the table too, so its SELECT policies are added
PoliciesFor(rel, cmd, role) ==
    Applicable(rel, cmd, role)
        \cup (IF cmd \in {"UPDATE", "DELETE"} THEN Applicable(rel, "SELECT", role) ELSE {})

\* the tables read by the sub-selects of the policies added to rel
SubLinks(rel, cmd, role) == UNION {q.sub : q \in PoliciesFor(rel, cmd, role)}

OnStack(rel, stack) == \E i \in 1..Len(stack) : stack[i] = rel

\* the policies of rel are added to the statement r is rewriting: without
\* sub-selects nothing more is to do; with sub-selects rel goes on the stack of
\* relations being expanded, unless it is there already, which is the error
\* "infinite recursion detected in policy for relation"
Expand(r, rel, cmd) ==
    LET subs == SubLinks(rel, cmd, r.role)
    IN  IF subs = {} THEN r
        ELSE IF OnStack(rel, r.activeRIRs)
             THEN [r EXCEPT !.outcome = "recursion"]
        ELSE [r EXCEPT !.activeRIRs = Append(@, rel), !.pending = Append(@, subs)]

\* every relation is expanded: the statement is ready to run
Settle(r) ==
    IF r.outcome = "rewriting" /\ r.activeRIRs = <<>>
    THEN [r EXCEPT !.outcome = "planned"] ELSE r

\* a statement cmd on tbl arrives with the role of its token
Rewrite(role, cmd, tbl) ==
    /\ rewriter.outcome = "idle"
    /\ rewriter' = Settle(Expand([NoQuery EXCEPT !.role = role, !.cmd = cmd, !.tbl = tbl,
                                                 !.outcome = "rewriting"], tbl, cmd))
    /\ UNCHANGED <<auth_users, profiles, notebooks, sources, notes, n8n_chat_histories,
                   documents, security_question_attempts, now, last, client, react, pg_policies>>

\* the next sub-select of the relation on top of the stack is rewritten in turn
fireRIRonSubLink ==
    /\ rewriter.outcome = "rewriting"
    /\ LET top == Len(rewriter.pending)
       IN  /\ top > 0
           /\ \E t \in rewriter.pending[top] :
                rewriter' = Expand([rewriter EXCEPT !.pending[top] = @ \ {t}], t, "SELECT")
    /\ UNCHANGED <<auth_users, profiles, notebooks, sources, notes, n8n_chat_histories,
                   documents, security_question_attempts, now, last, client, react, pg_policies>>

\* the relation on top of the stack has no sub-select left
PopRelation ==
    /\ rewriter.outcome = "rewriting"
    /\ LET top == Len(rewriter.pending)
       IN  /\ top > 0
           /\ rewriter.pending[top] = {}
           /\ rewriter' = Settle([rewriter EXCEPT
                                    !.activeRIRs = SubSeq(@, 1, top - 1),
                                    !.pending = SubSeq(@, 1, top - 1)])
    /\ UNCHANGED <<auth_users, profiles, notebooks, sources, notes, n8n_chat_histories,
                   documents, security_question_attempts, now, last, client, react, pg_policies>>

\* the statement ran or failed; the next one may come
NextStatement ==
    /\ rewriter.outcome \in {"planned", "recursion"}
    /\ rewriter' = NoQuery
    /\ UNCHANGED <<auth_users, profiles, notebooks, sources, notes, n8n_chat_histories,
                   documents, security_question_attempts, now, last, client, react, pg_policies>>

\* 20250115000000_fix_admin_profile_access.sql: three DROP POLICY IF EXISTS,
\* then three CREATE POLICY (which fail if the name exists)
fix_admin_profile_access ==
    /\ rewriter.outcome = "idle"
    /\ LET dropped == {"Users can view their own profile",
                       "Service role can view all profiles", "Profile access policy"}
           created == { Policy("Users can view own profile", "profiles", "SELECT",
                               "public", {}),
                        Policy("Admin can view all profiles", "profiles", "SELECT",
                               "public", {}),
                        Policy("Profile access policy", "profiles", "SELECT",
                               "public", {"profiles"}) }
           kept == {q \in pg_policies : q.name \notin dropped}
       IN  /\ \A q \in kept : \A c \in created : ~(q.name = c.name /\ q.tbl = c.tbl)
           /\ pg_policies' = kept \cup created
    /\ UNCHANGED <<auth_users, profiles, notebooks, sources, notes, n8n_chat_histories,
                   documents, security_question_attempts, now, last, client, react, rewriter>>

\* consolidated_migration.sql run again: DROP POLICY IF EXISTS and CREATE POLICY
\* for each of its own policies
consolidated_migration ==
    /\ rewriter.outcome = "idle"
    /\ pg_policies' =
            {q \in pg_policies :
                \A c \in ConsolidatedPolicies : ~(q.name = c.name /\ q.tbl = c.tbl)}
            \cup ConsolidatedPolicies
    /\ UNCHANGED <<auth_users, profiles, notebooks, sources, notes, n8n_chat_histories,
                   documents, security_question_attempts, now, last, client, react, rewriter>>

NextRewrite ==
    \/ \E role \in RequestRoles, cmd \in Commands, tbl \in Tables : Rewrite(role, cmd, tbl)
    \/ fireRIRonSubLink
    \/ PopRelation
    \/ NextStatement
    \/ fix_admin_profile_access
    \/ consolidated_migration

SpecRewrite == Init /\ [][NextRewrite]_vars

\* ------------------------------------------------- actions: AuthProvider
\* clearAuthState()
clearAuthState(pr) ==
    [pr EXCEPT !.session = NoSession, !.user = NULL, !.userProfile = NoProfile,
               !.error = ""]

\* updateAuthState(newSession) up to its await: setSession, setUser, and
\* setUserProfile(null) when there is no user
updateAuthState(pr, newSession) ==
    [pr EXCEPT !.session = newSession, !.user = newSession.user,
               !.userProfile = IF newSession.user = NULL THEN NoProfile ELSE @]

FreeFetch == CHOOSE i \in 1..MaxFetches : \A f \in tasks.fetches : f.id # i

\* ... and the profile fetch it awaits when there is a user
updateAuthState_fetch(fs, newSession) ==
    IF newSession.user = NULL THEN fs
    ELSE fs \cup {[id |-> FreeFetch, uid |-> newSession.user]}

\* no more than MaxFetches fetches are in flight
CanFetch(newSession) ==
    newSession.user = NULL \/ Cardinality(tasks.fetches) < MaxFetches

\* the listener of onAuthStateChange, called with event and newSession; session
\* and loading in its body are those of ListenerClosure
onAuthStateChange(event, newSession) ==
    LET differs == provider.session.access_token # newSession.access_token
        other == event \notin {"SIGNED_OUT", "SIGNED_IN", "TOKEN_REFRESHED"}
        updates ==
            IF event = "SIGNED_OUT" THEN FALSE
            ELSE IF ~other THEN TRUE
            ELSE ListenerClosure.session.access_token # newSession.access_token
    IN  /\ updates => CanFetch(newSession)
        /\ provider' =
            IF event = "SIGNED_OUT"
            THEN [clearAuthState(provider) EXCEPT !.loading = FALSE]
            ELSE IF ~other
                 THEN [updateAuthState(provider, newSession) EXCEPT !.loading = FALSE]
            ELSE IF updates
                 THEN [updateAuthState(provider, newSession) EXCEPT
                            !.loading = IF ListenerClosure.loading THEN FALSE ELSE @]
            ELSE provider
        /\ tasks' = [tasks EXCEPT
                        !.fetches = IF updates THEN updateAuthState_fetch(@, newSession)
                                    ELSE @,
                        !.initialSession = IF event = "INITIAL_SESSION" THEN "emitted"
                                           ELSE @,
                        !.event = Handled(event, differs, updates)]

\* a sign-in of user u (this tab or another one) with a new access token t
SIGNED_IN(u, t) ==
    /\ u \in auth_users
    /\ t # currentSession.access_token
    /\ currentSession' = Session(t, u)
    /\ session' = authenticated(u)
    /\ onAuthStateChange("SIGNED_IN", Session(t, u))
    /\ UNCHANGED <<auth_users, profiles, notebooks, sources, notes, n8n_chat_histories,
                   documents, security_question_attempts, now, last, form, call, wrong,
                   planner, toast>>

\* the auth client refreshed the access token
TOKEN_REFRESHED(t) ==
    /\ currentSession # NoSession
    /\ t # currentSession.access_token
    /\ currentSession' = Session(t, currentSession.user)
    /\ onAuthStateChange("TOKEN_REFRESHED", Session(t, currentSession.user))
    /\ UNCHANGED <<auth_users, profiles, notebooks, sources, notes, n8n_chat_histories,
                   documents, security_question_attempts, now, last, client,
                   planner, toast>>

\* the session ended without a call of signOut() here (another tab, expiry)
SIGNED_OUT ==
    /\ currentSession # NoSession
    /\ currentSession' = NoSession
    /\ session' = anon
    /\ onAuthStateChange("SIGNED_OUT", NoSession)
    /\ UNCHANGED <<auth_users, profiles, notebooks, sources, notes, n8n_chat_histories,
                   documents, security_question_attempts, now, last, form, call, wrong,
                   planner, toast>>

\* events that come with the session the auth client holds
OtherEvents == {"INITIAL_SESSION"}

\* INITIAL_SESSION follows the registration of the listener, once
OtherEvent(e) ==
    /\ e = "INITIAL_SESSION" => tasks.initialSession = "due"
    /\ onAuthStateChange(e, currentSession)
    /\ UNCHANGED <<auth_users, profiles, notebooks, sources, notes, n8n_chat_histories,
                   documents, security_question_attempts, now, last, client,
                   planner, toast, currentSession>>

\* initializeAuth after await supabase.auth.getSession()
initializeAuth(outcome) ==
    /\ tasks.initializeAuth = "awaiting"
    /\ outcome = "session" => CanFetch(currentSession)
    /\ provider' =
        CASE outcome = "session" ->
                [updateAuthState(provider, currentSession) EXCEPT !.loading = FALSE]
          [] outcome = "session_not_found" ->
                [clearAuthState(provider) EXCEPT !.loading = FALSE]
          [] OTHER ->
                [provider EXCEPT !.error = "Authentication error", !.loading = FALSE]
    /\ tasks' = [tasks EXCEPT
                    !.initializeAuth = "done",
                    !.fetches = IF outcome = "session"
                                THEN updateAuthState_fetch(@, currentSession) ELSE @]
    \* signOut({ scope: 'local' }) drops the session of the auth client
    /\ currentSession' = IF outcome = "session_not_found" THEN NoSession ELSE currentSession
    /\ session' = IF outcome = "session_not_found" THEN anon ELSE session
    /\ UNCHANGED <<auth_users, profiles, notebooks, sources, notes, n8n_chat_histories,
                   documents, security_question_attempts, now, last, form, call, wrong,
                   planner, toast>>

\* updateAuthState after its await: from('profiles').select('*').eq('id', uid)
\* .single() answered (delivered) or failed, then setUserProfile
updateAuthState_resume(f, delivered) ==
    /\ f \in tasks.fetches
    /\ LET found == {r \in profiles : r.id = f.uid /\ profiles_select(authenticated(f.uid), r)}
       IN  provider' = [provider EXCEPT !.userProfile =
                            IF delivered /\ found # {}
                            THEN LET r == CHOOSE r \in found : TRUE
                                 IN  [id |-> r.id, role |-> r.role]
                            ELSE NoProfile]
    /\ tasks' = [tasks EXCEPT !.fetches = @ \ {f}]
    /\ UNCHANGED <<auth_users, profiles, notebooks, sources, notes, n8n_chat_histories,
                   documents, security_question_attempts, now, last, client,
                   planner, toast, currentSession>>

\* signOut() up to await supabase.auth.signOut()
signOut_clearAuthState ==
    /\ tasks.signOut \in {"idle", "done"}
    /\ provider' = clearAuthState(provider)
    /\ tasks' = [tasks EXCEPT !.signOut = "awaiting"]
    /\ UNCHANGED <<auth_users, profiles, notebooks, sources, notes, n8n_chat_histories,
                   documents, security_question_attempts, now, last, client,
                   planner, toast, currentSession>>

\* the auth client dropped its session and told the listener SIGNED_OUT
SessionRemoved ==
    /\ currentSession' = NoSession
    /\ session' = anon
    /\ provider' = [clearAuthState(provider) EXCEPT !.loading = FALSE]

\* signOut() after await supabase.auth.signOut(): no error, an error of a
\* session unknown to the server (403), another error, or an exception
signOut_resume(outcome) ==
    /\ tasks.signOut = "awaiting"
    /\ IF outcome = "ok"
       THEN SessionRemoved
       ELSE UNCHANGED <<currentSession, session, provider>>
    /\ tasks' = [tasks EXCEPT
                    !.signOut = IF outcome \in {"ok", "session_not_found"} THEN "done"
                                ELSE "local",
                    !.event = IF outcome = "ok"
                              THEN Handled("SIGNED_OUT", provider.session # NoSession, FALSE)
                              ELSE @]
    /\ UNCHANGED <<auth_users, profiles, notebooks, sources, notes, n8n_chat_histories,
                   documents, security_question_attempts, now, last, form, call, wrong,
                   planner, toast>>

\* signOut() after await supabase.auth.signOut({ scope: 'local' })
signOut_local(removed) ==
    /\ tasks.signOut = "local"
    /\ IF removed
       THEN SessionRemoved
       ELSE UNCHANGED <<currentSession, session, provider>>
    /\ tasks' = [tasks EXCEPT
                    !.signOut = "done",
                    !.event = IF removed
                              THEN Handled("SIGNED_OUT", provider.session # NoSession, FALSE)
                              ELSE @]
    /\ UNCHANGED <<auth_users, profiles, notebooks, sources, notes, n8n_chat_histories,
                   documents, security_question_attempts, now, last, form, call, wrong,
                   planner, toast>>

NextAuth ==
    \/ \E u \in Users, t \in Tokens : SIGNED_IN(u, t)
    \/ \E t \in Tokens : TOKEN_REFRESHED(t)
    \/ SIGNED_OUT
    \/ \E e \in OtherEvents : OtherEvent(e)
    \/ \E o \in {"session", "session_not_found", "error"} : initializeAuth(o)
    \/ \E f \in tasks.fetches, d \in BOOLEAN : updateAuthState_resume(f, d)
    \/ signOut_clearAuthState
    \/ \E o \in {"ok", "session_not_found", "error", "throw"} : signOut_resume(o)
    \/ \E r \in BOOLEAN : signOut_local(r)

\* the page is loaded, with or without a session kept in local storage; user 1
\* is the admin
InitAuth ==
    /\ Seeded(OneAdmin)
    /\ notebooks = {}
    /\ sources = {}
    /\ notes = {}
    /\ n8n_chat_histories = {}
    /\ documents = {}
    /\ security_question_attempts = {}
    /\ now = 0
    /\ last = Statement("none", "none", anon, NULL, {}, "")
    /\ form = FormInitial
    /\ call = NoCall
    /\ wrong = {}
    /\ PlannerIdle
    /\ provider = ProviderInitial
    /\ tasks = TasksInitial
    /\ toast = NoToast
    /\ \E s \in {NoSession} \cup {Session(1, u) : u \in Users} :
            /\ currentSession = s
            /\ session = IF s = NoSession THEN anon ELSE authenticated(s.user)

SpecAuth == InitAuth /\ [][NextAuth]_vars

\* ------------------------------------------------ actions: useUserProfiles
\* `User role has been updated to ${data.role}`
RoleUpdatedTo(role) ==
    IF role = "admin" THEN "User role has been updated to admin"
    ELSE "User role has been updated to user"

\* updateUserRole({ userId, newRole }): mutationFn with onSuccess / onError.
\* isAdmin and userProfile are those of AuthProvider, the statements go out
\* with the session of the supabase client.
updateUserRole(userId, newRole) ==
    LET p == session
        me == provider.userProfile
        existing == {r \in profiles : r.id = userId /\ profiles_select(p, r)}
        hit == {r \in existing : profiles_update_using(p, r)}
        new(r) == [r EXCEPT !.role = newRole]
        ok == \A r \in hit : profiles_update_check(p, new(r)) /\ profiles_select(p, new(r))
        Failed(msg, sent) == Toast("Update Failed", msg, "updateUserRole", userId, me, sent)
    IN  /\ IF ~isAdmin
           THEN /\ toast' = Failed("Unauthorized: Admin access required", {})
                /\ UNCHANGED <<profiles, last>>
           ELSE IF existing = {}
           THEN /\ toast' = Failed("No user found with ID", {"SELECT"})
                /\ last' = Statement("SELECT", "profiles", p, userId, {}, "")
                /\ UNCHANGED profiles
           ELSE IF userId = me.id
           THEN /\ toast' = Failed("You cannot change your own role", {"SELECT"})
                /\ last' = Statement("SELECT", "profiles", p, userId, {userId}, "")
                /\ UNCHANGED profiles
           ELSE /\ profiles' = IF ok THEN (profiles \ hit) \cup {new(r) : r \in hit}
                               ELSE profiles
                /\ last' = Statement("UPDATE", "profiles", p, userId,
                                     IF ok THEN IdsOf(hit) ELSE {},
                                     IF ok THEN "" ELSE "policy")
                /\ toast' =
                    IF ~ok THEN Failed("new row violates row-level security policy",
                                       {"SELECT", "UPDATE"})
                    ELSE IF hit = {} THEN Failed("Update failed: No rows affected",
                                                 {"SELECT", "UPDATE"})
                    ELSE Toast("Role Updated", RoleUpdatedTo(newRole),
                               "updateUserRole", userId, me, {"SELECT", "UPDATE"})
        /\ UNCHANGED <<auth_users, notebooks, sources, notes, n8n_chat_histories,
                       documents, security_question_attempts, now, client, planner,
                       provider, tasks, currentSession>>

\* deleteUser(userId): mutationFn with onSuccess / onError
deleteUser(userId) ==
    LET p == session
        me == provider.userProfile
        existing == {r \in profiles : r.id = userId /\ profiles_select(p, r)}
        hit == {r \in existing : profiles_delete_using(p, r)}
        gone == IdsOf(hit)
        goneNb == IdsOf({n \in notebooks : n.user_id \in gone})
        Failed(msg, sent) == Toast("Delete Failed", msg, "deleteUser", userId, me, sent)
        untouched == UNCHANGED <<profiles, notebooks, sources, notes,
                                 security_question_attempts>>
    IN  /\ IF ~isAdmin
           THEN /\ toast' = Failed("Unauthorized: Admin access required", {})
                /\ untouched
                /\ UNCHANGED last
           ELSE IF userId = me.id
           THEN /\ toast' = Failed("You cannot delete your own account", {})
                /\ untouched
                /\ UNCHANGED last
           ELSE IF existing = {}
           THEN /\ toast' = Failed("No user found with ID", {"SELECT"})
                /\ last' = Statement("SELECT", "profiles", p, userId, {}, "")
                /\ untouched
           ELSE /\ profiles' = profiles \ hit
                /\ notebooks' = CascadeNotebooks(gone)
                /\ sources' = CascadeSources(goneNb)
                /\ notes' = CascadeNotes(gone, goneNb)
                /\ security_question_attempts' = CascadeAttempts(gone)
                /\ last' = Statement("DELETE", "profiles", p, userId, gone, "")
                                @@ [cascaded_notes |-> notes \ CascadeNotes(gone, goneNb)]
                /\ toast' = Toast("User Deleted", "User has been successfully deleted",
                                  "deleteUser", userId, me, {"SELECT", "DELETE"})
        /\ UNCHANGED <<auth_users, n8n_chat_histories, documents, now, client, planner,
                       provider, tasks, currentSession>>

\* the admin panel in use: sign-ins, profile fetches, the two mutations, and the
\* service key changing or removing profiles
NextAdminPanel ==
    \/ \E u \in Users, t \in Tokens : SIGNED_IN(u, t)
    \/ \E f \in tasks.fetches, d \in BOOLEAN : updateAuthState_resume(f, d)
    \/ \E u \in Users, r \in Roles : updateUserRole(u, r)
    \/ \E u \in Users : deleteUser(u)
    \/ \E w \in Users, r \in Roles : UpdateProfileRole(service_role, w, r)
    \/ \E w \in Users : DeleteProfile(service_role, w)

SpecAdminPanel == InitAuth /\ [][NextAdminPanel]_vars

\* --------------------------------------------------------- actions: useNotes
\* createNote({ title, content, notebook_id }): the row gets user.id of
\* AuthProvider and notebook_id || null, goes out with the session of the
\* supabase client and is read back (.select().single()); the record of the
\* statement keeps the row sent
createNote(nb) ==
    /\ provider.user # NULL
    /\ NoteIds \ IdsOf(notes) # {}
    /\ LET p == session
           row == [id |-> FreeId(NoteIds, notes), notebook_id |-> nb,
                   user_id |-> provider.user]
           err == IF ~notes_insert_check(p, row) \/ ~notes_select(p, row) THEN "policy"
                  ELSE IF nb \notin IdsOf(notebooks)               \* NOT NULL REFERENCES
                          \/ row.user_id \notin IdsOf(profiles)    \* NOT NULL REFERENCES
                       THEN "constraint"
                  ELSE ""
       IN  /\ notes' = IF err = "" THEN notes \cup {row} ELSE notes
           /\ last' = Statement("INSERT", "notes", p, NULL,
                                IF err = "" THEN {row.id} ELSE {}, err) @@ [row |-> row]
    /\ UNCHANGED <<auth_users, profiles, notebooks, sources, n8n_chat_histories,
                   documents, security_question_attempts, now, client, planner, react>>

\* users sign in and out and take notes
NextNoteTaking ==
    \/ \E u \in Users, t \in Tokens : SIGNED_IN(u, t)
    \/ SIGNED_OUT
    \/ \E f \in tasks.fetches, d \in BOOLEAN : updateAuthState_resume(f, d)
    \/ \E nb \in NotebookIds \cup {NULL} : createNote(nb)
    \/ \E w \in NoteIds : DeleteNote(session, w)

SpecNoteTaking == InitNotes /\ [][NextNoteTaking]_vars

\* the statement of this step was issued by a signed-in user or by anon
ByNonService == last'.by.kind # "service_role"

\* C1: no UPDATE on profiles issued by a non-service principal changes the
\* role of the issuer's own profile: the issuer's role after the statement is
\* the role it had before.
C1_NoSelfRoleChange ==
    [][(last'.cmd = "UPDATE" /\ last'.tbl = "profiles" /\ ByNonService) =>
         \A r \in profiles : \A r2 \in profiles' :
             (r.id = r2.id /\ SqlEq(last'.by.uid, r.id)) => r2.role = r.role]_vars

\* C2: a DELETE on profiles issued by a non-service principal (an admin is the
\* only one the policy lets delete) never removes the issuer's own profile,
\* whatever the roles are when it runs: every row it removes has another id.
C2_AdminNeverDeletesOwnProfile ==
    [][(last'.cmd = "DELETE" /\ last'.tbl = "profiles" /\ ByNonService) =>
         \A r \in profiles \ profiles' : SqlNe(last'.by.uid, r.id)]_vars

\* an admin has run DELETE on its own profile (WHERE id = itself, or without a
\* WHERE clause while other profiles went) and is still there, still admin
C2_Witness ==
    /\ last.cmd = "DELETE" /\ last.tbl = "profiles"
    /\ last.by.kind = "authenticated"
    /\ IsAdmin(last.by)
    /\ \/ last.where = last.by.uid
       \/ last.where = NULL /\ last.ids # {}

\* C4: a profile gets role 'admin' (by being created with it or by an update)
\* only in a step issued by the service principal or by an admin other than
\* the profile's user: sign-up and a principal's own statements leave it 'user'.
C4_AdminOnlyByGrant ==
    [][\A r2 \in profiles' :
         (r2.role = "admin" /\ ~(\E r \in profiles : r.id = r2.id /\ r.role = "admin")) =>
            \/ last'.by.kind = "service_role"
            \/ IsAdmin(last'.by) /\ SqlNe(last'.by.uid, r2.id)]_vars


\* the statement of this step was issued by a principal that is neither the
\* service principal nor (when the statement began) an admin
ByPlainPrincipal == ByNonService /\ ~IsAdmin(last'.by)

\* C3: a statement on notes issued by a principal that is neither admin nor
\* service touches only notes owned by that principal: every row it returns,
\* changes or removes has the issuer as user_id before the statement, and
\* every row it stores or leaves changed has the issuer as user_id after it.
C3_NotesOwnerOnly ==
    [][(last'.tbl = "notes" /\ ByPlainPrincipal) =>
         /\ \A n \in notes : n.id \in last'.ids => SqlEq(n.user_id, last'.by.uid)
         /\ \A n \in notes \ notes' : SqlEq(n.user_id, last'.by.uid)
         /\ \A n \in notes' \ notes : SqlEq(n.user_id, last'.by.uid)]_vars

\* a plain user has just tried to take over (UPDATE ... SET user_id) a note of
\* another user, and the note is untouched
C3_Witness ==
    /\ last.tbl = "notes" /\ last.cmd = "UPDATE"
    /\ last.by.kind = "authenticated" /\ ~IsAdmin(last.by)
    /\ last.ids = {}
    /\ \E n \in notes : n.id = last.where /\ n.user_id # last.by.uid

C6_ChatUserSpecific ==
    \A c \in n8n_chat_histories : \A p, q \in Principals :
        (/\ p # q
         /\ p.kind # "service_role" /\ ~IsAdmin(p)
         /\ q.kind # "service_role" /\ ~IsAdmin(q))
            => ~(chat_select(p, c) /\ chat_select(q, c))

\* C7: a SELECT or INSERT on n8n_chat_histories issued by a principal other
\* than service returns no row and stores no row whose session_id is the id of
\* no notebook, and ends without an error or with the policy's refusal, never
\* with another failure.
C7_MissingParentDenied ==
    [][(/\ last'.tbl = "n8n_chat_histories"
        /\ last'.cmd \in {"SELECT", "INSERT"}
        /\ ByNonService) =>
         /\ \A c \in n8n_chat_histories :
                (last'.cmd = "SELECT" /\ c.id \in last'.ids)
                    => c.session_id \in IdsOf(notebooks)
         /\ \A c \in n8n_chat_histories' \ n8n_chat_histories :
                c.session_id \in IdsOf(notebooks)
         /\ last'.error \in {"", "policy"}]_vars

\* a signed-in user or anon has just asked for a stored chat row whose
\* notebook does not exist and got nothing
C7_Witness ==
    /\ last.tbl = "n8n_chat_histories" /\ last.cmd = "SELECT"
    /\ last.by.kind # "service_role"
    /\ last.ids = {}
    /\ \E c \in n8n_chat_histories :
            Where(last.where, c.id) /\ c.session_id \notin IdsOf(notebooks)

\* C8: once three failed attempts are on record for a user and no time has
\* passed since, a call of checkSecurityAnswer for that user returns false,
\* whatever the answer and whichever page load it comes from.
C8_LockedAfterThreeFailures ==
    (/\ call.pc = "done"
     /\ call.prior >= maxAttempts
     /\ call.started = now) => ~call.result

\* C9: when a call of checkSecurityAnswer returns, a row of that call is
\* stored in security_question_attempts.
C9_AttemptStoredBeforeOutcome ==
    call.pc = "done" => call.rows \subseteq IdsOf(security_question_attempts)
                        /\ call.rows # {}

C11_AdminAllowedEverything ==
    [][(/\ last'.by.kind = "authenticated" /\ IsAdmin(last'.by)
        /\ last'.tbl = "n8n_chat_histories"
        /\ last'.cmd \in {"UPDATE", "DELETE"}) =>
         /\ last'.error = ""
         /\ \A c \in n8n_chat_histories :
                Where(last'.where, c.id) => c.id \in last'.ids]_vars

\* C12: a SELECT on profiles returns a row its WHERE clause names exactly when
\* the issuer is the row's own user, an admin or the service principal.
C12_ProfileSelectRule ==
    [][(last'.cmd = "SELECT" /\ last'.tbl = "profiles") =>
         \A r \in profiles :
            Where(last'.where, r.id) =>
                (r.id \in last'.ids <=> \/ SqlEq(auth_uid(last'.by), r.id)
                                        \/ IsAdmin(last'.by)
                                        \/ last'.by.kind = "service_role")]_vars

\* C13: UPDATE and DELETE on documents and on security_question_attempts have
\* no policy for a principal other than service, so such a statement issued by
\* anon, a user or an admin touches no row and leaves both tables as they were.
C13_DefaultDeny ==
    [][(/\ ByNonService
        /\ last'.tbl \in {"documents", "security_question_attempts"}
        /\ last'.cmd \in {"UPDATE", "DELETE"}) =>
         /\ last'.ids = {}
         /\ documents' = documents
         /\ security_question_attempts' = security_question_attempts]_vars

\* the admin has just run DELETE on a stored document, or a user UPDATE on its
\* own stored attempt, by id, and nothing happened
C13_Witness ==
    /\ last.by.kind = "authenticated"
    /\ last.ids = {}
    /\ \/ /\ last.tbl = "documents" /\ last.cmd = "DELETE" /\ IsAdmin(last.by)
          /\ \E d \in documents : d.id = last.where
       \/ /\ last.tbl = "security_question_attempts" /\ last.cmd = "UPDATE"
          /\ \E a \in security_question_attempts :
                a.id = last.where /\ a.user_id = last.by.uid

C18_NotebookDeleteCascades ==
    [][\A nb \in IdsOf(notebooks) \ IdsOf(notebooks') :
         /\ \A r \in sources' : r.notebook_id # nb
         /\ \A n \in notes' : n.notebook_id # nb
         /\ \A c \in n8n_chat_histories' : c.session_id # nb]_vars

\* every notebook, note and attempt names an existing profile, every source
\* and note an existing notebook
ReferencesHold ==
    /\ \A n \in notebooks : n.user_id \in IdsOf(profiles)
    /\ \A n \in notes : n.user_id \in IdsOf(profiles) /\ n.notebook_id \in IdsOf(notebooks)
    /\ \A a \in security_question_attempts : a.user_id \in IdsOf(profiles)
    /\ \A r \in sources : r.notebook_id \in IdsOf(notebooks)

\* C19: the references hold in every state, and the step that removes a
\* profile removes that user's notebooks, notes and attempts and every source
\* and note of those notebooks, notes of other users included.
C19_ReferentialIntegrity ==
    /\ ReferencesHold
    /\ [][/\ ReferencesHold'
          /\ \A u \in IdsOf(profiles) \ IdsOf(profiles') :
                LET nbs == IdsOf({n \in notebooks : n.user_id = u})
                IN  /\ \A n \in notebooks' : n.user_id # u /\ n.id \notin nbs
                    /\ \A n \in notes' : n.user_id # u /\ n.notebook_id \notin nbs
                    /\ \A a \in security_question_attempts' : a.user_id # u
                    /\ \A r \in sources' : r.notebook_id \notin nbs]_vars

\* a profile has just been deleted, and with it went a note of another user
\* whose own profile is still there
C19_Witness ==
    /\ last.cmd = "DELETE" /\ last.tbl = "profiles"
    /\ \E n \in last.cascaded_notes :
            n.user_id \notin last.ids /\ n.user_id \in IdsOf(profiles)

\* C20: no statement fails with "infinite recursion detected in policy", and
\* no relation is on the stack of relations being expanded twice.
C20_PolicyEvaluationTerminates ==
    /\ rewriter.outcome # "recursion"
    /\ \A i, j \in 1..Len(rewriter.activeRIRs) :
            rewriter.activeRIRs[i] = rewriter.activeRIRs[j] => i = j

\* C21: once no profile fetch is in flight, AuthProvider holds no profile
\* without a session (isAdmin implies isAuthenticated).
C21_NoProfileWithoutSession ==
    tasks.fetches = {} =>
        /\ provider.session = NoSession => provider.userProfile = NoProfile
        /\ isAdmin => isAuthenticated

\* C22: with no profile fetch in flight, the profile held by AuthProvider is
\* that of the user it holds.
C22_ProfileOfCurrentUser ==
    (tasks.fetches = {} /\ provider.user # NULL /\ provider.userProfile # NoProfile)
        => provider.userProfile.id = provider.user

\* C23: while AuthProvider holds the session of a user whose profile has role
\* 'admin', AdminRoute shows the loading indicator or its children.
C23_AdminNeverRedirected ==
    (/\ isAuthenticated
     /\ \E r \in profiles : r.id = provider.session.user /\ r.role = "admin")
        => AdminRoute \in {"loading", "children"}

\* C24: when signOut() completes and no event has brought a session meanwhile,
\* AuthProvider holds no user and no profile.
C24_SignOutLeavesStateCleared ==
    [][(tasks.signOut # "done" /\ tasks'.signOut = "done" /\ provider'.session = NoSession)
            => (provider'.user = NULL /\ provider'.userProfile = NoProfile)]_vars

\* C30: for an event other than SIGNED_OUT, SIGNED_IN and TOKEN_REFRESHED the
\* listener calls updateAuthState exactly when the access token of the event's
\* session differs from that of the session AuthProvider held at that time.
C30_OtherEventsCompareCurrentToken ==
    tasks.event.name \in OtherEvents => (tasks.event.updated <=> tasks.event.differs)

\* C25: a call of updateUserRole or deleteUser made while AuthProvider holds
\* no admin profile, or for the id of the profile it holds, sends no UPDATE and
\* no DELETE and fails with 'Unauthorized: Admin access required', 'You cannot
\* change your own role' or 'You cannot delete your own account'.
C25_GuardsPrecedeWrites ==
    (toast.op \in {"updateUserRole", "deleteUser"}
        /\ (toast.by.role # "admin" \/ toast.userId = toast.by.id))
    => /\ toast.sent \cap {"UPDATE", "DELETE"} = {}
       /\ toast.title \in {"Update Failed", "Delete Failed"}
       /\ toast.description =
            IF toast.by.role # "admin" THEN "Unauthorized: Admin access required"
            ELSE IF toast.op = "updateUserRole" THEN "You cannot change your own role"
            ELSE "You cannot delete your own account"

\* C26: when 'User Deleted' is shown the profile of that user is gone, and when
\* 'Role Updated' is shown the profile of that user has the role shown.
C26_SuccessMeansChanged ==
    [][toast' # toast =>
        /\ toast'.title = "User Deleted" => toast'.userId \notin IdsOf(profiles')
        /\ toast'.title = "Role Updated" =>
                \E r \in profiles' :
                    r.id = toast'.userId /\ RoleUpdatedTo(r.role) = toast'.description]_vars

\* C27: the step of ForgotPassword changes only from 'email' to 'security',
\* with the user id and a question that getUserSecurityQuestion returned, and
\* from 'security' to 'newPassword', after checkSecurityAnswer returned true
\* for the stored user id (or the form is mounted anew); update-password is
\* invoked only in step 'newPassword' for the stored user id; and
\* checkSecurityAnswer is not called with three wrong answers counted.
C27_RecoveryForwardOnly ==
    [][/\ form'.step # form.step =>
            \/ form' = FormInitial
            \/ /\ form.step = "email"
               /\ form'.step = "security"
               /\ form'.userId # NULL
               /\ \E r \in getUserSecurityQuestion(form'.userId) :
                        r.security_answer_hash # ""
            \/ /\ form.step = "security"
               /\ form'.step = "newPassword"
               /\ form'.userId = form.userId
               /\ call.pc = "done" /\ call.result /\ call.userId = form.userId
       /\ (last' # last /\ last'.tbl = "update-password") =>
            /\ form.step = "newPassword"
            /\ form.userId # NULL
            /\ last'.where = form.userId
       /\ (call.pc = "idle" /\ call'.pc # "idle") =>
            /\ form.step = "security"
            /\ form.attempts < maxAttempts
            /\ call'.userId = form.userId]_vars

\* the password of a user was reset after a wrong and then a right answer
C27_Witness ==
    /\ last.tbl = "update-password"
    /\ last.error = ""
    /\ wrong # {}
    /\ toast.title = "Password Reset Successful"

\* C28: handleEmailSubmit shows the same toast and leaves the form in the same
\* step whether a profile with the submitted e-mail address exists or not.
C28_EmailStepHidesExistence ==
    \A t \in Users :
        form.step = "email" =>
            EmailSubmitOutcome(getUserSecurityQuestion(t)) = EmailSubmitOutcome({})

\* C29: createNote by a signed-in user without a notebook_id stores the note
\* with notebook_id null, and every note createNote stores has the caller's id
\* as user_id.
C29_NotebookOptional ==
    ("row" \in DOMAIN last /\ last.by.kind = "authenticated") =>
        /\ last.error = "" => last.row.user_id = last.by.uid /\ last.row \in notes
        /\ (last.row.notebook_id = NULL /\ last.row.user_id = last.by.uid) =>
                last.error = "" /\ last.row \in notes

====
